---- MODULE Spec2Model ----
(***************************************************************************)
(* A model of nova/scheduler/filter_scheduler.py: FilterScheduler's        *)
(* select_destinations and the filter -> weigh -> pick -> consume loop of  *)
(* _schedule.  The host manager's filter chain and weigher chain and the   *)
(* HostState consumption are collaborators that live outside this file;    *)
(* they are modelled by a capacity (and group anti-affinity) filter, a     *)
(* stable descending sort by remaining capacity, and a debit of one        *)
(* instance's footprint.                                                   *)
(* Spec is one call; SpecReturning is one call whose collaborators all     *)
(* return; SpecRepeated repeats the request; SpecConcurrent has two calls  *)
(* in flight on the HostStates that the host manager keeps.                *)
(***************************************************************************)
EXTENDS Integers, Sequences, FiniteSets, TLC

\* ------------------------------------------------------------------ bounds
NumHosts == 3
MaxCapacity == 2
MaxInstances == 5

Hosts == 1..NumHosts
\* scheduler_host_subset_size is an IntOpt: any integer.  The sizes tried are
\* a negative one, zero, one, two and one that no weighed list reaches.
SubsetSizes == {0 - 1, 0, 1, 2, NumHosts + 1}
\* The footprints tried: the smallest, and one that fills the largest host.
Footprints == {1, MaxCapacity}

VARIABLES
    capacity,                    \* HostState: remaining capacity, per host
    updated,                     \* HostState.updated, the freshness marker
    capacity0,                   \* the host set as it was when the call began
    num_instances,               \* spec_obj.num_instances
    footprint,                   \* capacity one instance of spec_obj.flavor takes
    scheduler_host_subset_size,  \* CONF.scheduler_host_subset_size
    group_policy,                \* the request's instance-group policy
    group_updated,               \* filter_properties['group_updated']
    group_hosts,                 \* filter_properties['group_hosts']
    pc,                          \* position of the call
    num,                         \* the loop index of _schedule
    hosts,                       \* _schedule's local "hosts"
    weighed_hosts,               \* _schedule's local "weighed_hosts"
    selected_hosts,              \* _schedule's local "selected_hosts"
    notifications,               \* events handed to self.notifier.info
    dests,                       \* what select_destinations returned
    exc,                         \* what select_destinations raised
    log,                         \* history: the collaborator calls, in order
    call,                        \* history: number of the call on this object
    first_call,                  \* history: picks and outcome of the first call
    other                        \* the frame of a second call in flight, if any

vars == <<capacity, updated, capacity0, num_instances, footprint,
          scheduler_host_subset_size, group_policy, group_updated, group_hosts,
          pc, num, hosts, weighed_hosts, selected_hosts, notifications, dests,
          exc, log, call, first_call, other>>

request == <<num_instances, footprint, scheduler_host_subset_size,
             group_policy, group_updated, capacity0>>
\* What no step of the running call touches: the bookkeeping of calls and the
\* frame of the other call.
history == <<call, first_call, other>>

\* --------------------------------------------------------------- helpers
Range(s) == {s[i] : i \in 1..Len(s)}

Count(s, x) == Cardinality({i \in 1..Len(s) : s[i] = x})

Entry(op, hs) == [op |-> op, round |-> num, hosts |-> hs]

\* host_manager.get_all_host_states: every host of the fleet, in a fixed order.
AllHostStates == [i \in 1..NumHosts |-> i]

\* One filter of the chain: the host still has room for one more instance.
CapacityPasses(h) == capacity[h] >= footprint

\* One filter of the chain: anti-affinity keeps the group's hosts out.
GroupPasses(h) == group_policy = "anti-affinity" => h \notin group_hosts

HostPasses(h) == CapacityPasses(h) /\ GroupPasses(h)

\* host_manager.get_filtered_hosts: the sub-list of the hosts that pass.
FilteredHosts(hs) == SelectSeq(hs, HostPasses)

\* Position of the first host of hs with the largest remaining capacity.
BestIndex(hs) ==
    CHOOSE i \in 1..Len(hs) :
        /\ \A j \in 1..Len(hs) : capacity[hs[j]] <= capacity[hs[i]]
        /\ \A j \in 1..(i - 1) : capacity[hs[j]] < capacity[hs[i]]

RemoveAt(s, i) == SubSeq(s, 1, i - 1) \o SubSeq(s, i + 1, Len(s))

\* host_manager.get_weighed_hosts: most desirable first, ties in list order.
RECURSIVE WeighedHosts(_)
WeighedHosts(hs) ==
    IF hs = <<>> THEN <<>>
    ELSE LET i == BestIndex(hs)
         IN <<hs[i]>> \o WeighedHosts(RemoveAt(hs, i))

\* HostState.consume_from_request: the debit of one instance.
Consumed(h) == [capacity EXCEPT ![h] = @ - footprint]

\* weighed_hosts[0:stop], a Python slice: a negative stop counts from the end.
Slice(s, stop) ==
    LET n == Len(s)
        e == IF stop < 0 THEN (IF n + stop < 0 THEN 0 ELSE n + stop)
             ELSE (IF stop > n THEN n ELSE stop)
    IN SubSeq(s, 1, e)

\* A faulty variant: the "< 1" test is missing, only the upper bound is applied.
EffectiveSubsetSize_NoLowerBound(size, n) == IF size > n THEN n ELSE size

\* The two ifs that bring CONF.scheduler_host_subset_size into range.
EffectiveSubsetSize(size, n) ==
    LET capped == IF size > n THEN n ELSE size
    IN IF capped < 1 THEN 1 ELSE capped

\* The hosts random.choice may return for a configured subset size.
ChoiceSet(size) ==
    Range(Slice(weighed_hosts, EffectiveSubsetSize(size, Len(weighed_hosts))))

\* A faulty variant: range(num_instances - 1), a loop that is one round short.
LoopContinues_OneShort(n) == n < num_instances - 1

\* A faulty variant: the loop runs one round more than was asked for.
LoopContinues_OneMore(n) == n < num_instances + 1

\* for num in range(num_instances): is there a round with index n?
LoopContinues(n) == n < num_instances

\* A faulty variant: "if not selected_hosts" in place of the comparison of the lengths.
CouldNotFulfill_OnlyWhenEmpty == selected_hosts = <<>>

\* len(selected_hosts) < num_instances
CouldNotFulfill == Len(selected_hosts) < num_instances

\* chosen_host, once it has been appended to selected_hosts.
chosen_host == selected_hosts[Len(selected_hosts)]

\* dests = [dict(host=..., nodename=..., limits=...) for host in selected_hosts]
\* A host is named by its number, it has one node, and the limits the filters
\* left on the HostState are those of its capacity at the start of the call.
Destination(h) == [host |-> h, nodename |-> h, limits |-> capacity0[h]]

\* A faulty variant: the destinations are listed by weight, best host first,
\* instead of in the order the hosts were chosen.
Destinations_ByWeight(sel) ==
    [i \in 1..Len(sel) |-> Destination(WeighedHosts(sel)[i])]

Destinations(sel) == [i \in 1..Len(sel) |-> Destination(sel[i])]

NoCall == [selected |-> <<>>, pc |-> "none", exc |-> "none"]

\* The locals of one call of select_destinations and of its _schedule: what a
\* call that is suspended in a collaborator keeps on its stack.
Frame(id, p) ==
    [id |-> id, pc |-> p, num |-> 0, hosts |-> <<>>, weighed_hosts |-> <<>>,
     selected_hosts |-> <<>>, notifications |-> <<>>, dests |-> <<>>,
     exc |-> "none", log |-> <<>>, group_hosts |-> {}]

\* No second call.
NoFrame == Frame(0, "none")

\* ------------------------------------------------------------------ Init
Init ==
    /\ capacity \in [Hosts -> 0..MaxCapacity]
    /\ capacity0 = capacity
    /\ updated = [h \in Hosts |-> "t0"]
    /\ num_instances \in 1..MaxInstances
    /\ footprint \in Footprints
    /\ scheduler_host_subset_size \in SubsetSizes
    /\ group_policy \in {"none", "anti-affinity"}
    /\ group_updated \in BOOLEAN
    /\ group_policy = "anti-affinity" => group_updated
    /\ group_hosts = {}
    /\ pc = "start"
    /\ num = 0
    /\ hosts = <<>>
    /\ weighed_hosts = <<>>
    /\ selected_hosts = <<>>
    /\ notifications = <<>>
    /\ dests = <<>>
    /\ exc = "none"
    /\ log = <<>>
    /\ call = 1
    /\ first_call = NoCall
    /\ other = NoFrame

\* --------------------------------------------------------------- actions
\* select_destinations, up to the call of _schedule: the start event.
NotifyStart ==
    /\ pc = "start"
    /\ notifications' =
          Append(notifications, "scheduler.select_destinations.start")
    /\ log' = Append(log, Entry("notify_start", <<>>))
    /\ pc' = "fetch"
    /\ UNCHANGED <<capacity, updated, request, group_hosts, num, hosts,
                   weighed_hosts, selected_hosts, dests, exc, history>>

\* _schedule, up to the loop: the host states are fetched, once.
GetAllHostStates ==
    /\ pc = "fetch"
    /\ hosts' = AllHostStates
    /\ selected_hosts' = <<>>
    /\ num' = 0
    /\ log' = Append(log, Entry("get_all_host_states", AllHostStates))
    /\ pc' = "filter"
    /\ UNCHANGED <<capacity, updated, request, group_hosts, weighed_hosts,
                   notifications, dests, exc, history>>

\* A faulty variant: the failure is caught and reported as NoValidHost.
Propagate_AsNoValidHost(failure) ==
    /\ pc' = "raised"
    /\ exc' = "NoValidHost"
    /\ UNCHANGED <<capacity, updated, request, group_hosts, num, hosts,
                   weighed_hosts, selected_hosts, notifications, dests, history>>

\* A faulty variant: the markers of the selected hosts are cleared on the way
\* out, as on the NoValidHost path.
Propagate_Invalidating(failure) ==
    /\ pc' = "raised"
    /\ exc' = failure
    /\ updated' = [h \in Hosts |->
                     IF h \in Range(selected_hosts) THEN "None" ELSE updated[h]]
    /\ UNCHANGED <<capacity, request, group_hosts, num, hosts,
                   weighed_hosts, selected_hosts, notifications, dests, history>>

\* An exception of a collaborator leaves both frames: nothing catches it.
Propagate(failure) ==
    /\ pc' = "raised"
    /\ exc' = failure
    /\ UNCHANGED <<capacity, updated, request, group_hosts, num, hosts,
                   weighed_hosts, selected_hosts, notifications, dests, history>>

GetAllHostStatesRaises ==
    /\ pc = "fetch"
    /\ log' = Append(log, Entry("get_all_host_states_raises", <<>>))
    /\ Propagate("HostStateProviderError")

\* A faulty variant: the hosts are filtered in the first round only.
GetFilteredHosts_FirstRoundOnly ==
    /\ pc = "filter"
    /\ hosts' = IF num = 0 THEN FilteredHosts(hosts) ELSE hosts
    /\ log' = log \o <<Entry("get_filtered_hosts_input", hosts),
                      Entry("get_filtered_hosts", hosts')>>
    /\ pc' = IF hosts' = <<>> THEN "check" ELSE "weigh"
    /\ UNCHANGED <<capacity, updated, request, group_hosts, num, weighed_hosts,
                   selected_hosts, notifications, dests, exc, history>>

\* A faulty variant: the "if not hosts: break" is missing.
GetFilteredHosts_NoBreak ==
    /\ pc = "filter"
    /\ hosts' = FilteredHosts(hosts)
    /\ log' = log \o <<Entry("get_filtered_hosts_input", hosts),
                      Entry("get_filtered_hosts", hosts')>>
    /\ pc' = "weigh"
    /\ UNCHANGED <<capacity, updated, request, group_hosts, num, weighed_hosts,
                   selected_hosts, notifications, dests, exc, history>>

\* A faulty variant: every round filters the list the provider returned.
GetFilteredHosts_FromSnapshot ==
    /\ pc = "filter"
    /\ hosts' = FilteredHosts(AllHostStates)
    /\ log' = log \o <<Entry("get_filtered_hosts_input", AllHostStates),
                      Entry("get_filtered_hosts", hosts')>>
    /\ pc' = IF hosts' = <<>> THEN "check" ELSE "weigh"
    /\ UNCHANGED <<capacity, updated, request, group_hosts, num, weighed_hosts,
                   selected_hosts, notifications, dests, exc, history>>

\* A faulty variant: the provider is asked again at the top of every round.
GetFilteredHosts_Refetch ==
    /\ pc = "filter"
    /\ hosts' = FilteredHosts(IF num = 0 THEN hosts ELSE AllHostStates)
    /\ log' = log \o
          (IF num = 0 THEN <<>>
                      ELSE <<Entry("get_all_host_states", AllHostStates)>>)
          \o <<Entry("get_filtered_hosts_input",
                     IF num = 0 THEN hosts ELSE AllHostStates),
               Entry("get_filtered_hosts", hosts')>>
    /\ pc' = IF hosts' = <<>> THEN "check" ELSE "weigh"
    /\ UNCHANGED <<capacity, updated, request, group_hosts, num, weighed_hosts,
                   selected_hosts, notifications, dests, exc, history>>

\* hosts = get_filtered_hosts(hosts, ...); if not hosts: break.  The log keeps
\* the list the filter chain was given and the list it gave back.
GetFilteredHosts ==
    /\ pc = "filter"
    /\ hosts' = FilteredHosts(hosts)
    /\ log' = log \o <<Entry("get_filtered_hosts_input", hosts),
                      Entry("get_filtered_hosts", hosts')>>
    /\ pc' = IF hosts' = <<>> THEN "check" ELSE "weigh"
    /\ UNCHANGED <<capacity, updated, request, group_hosts, num, weighed_hosts,
                   selected_hosts, notifications, dests, exc, history>>

GetFilteredHostsRaises ==
    /\ pc = "filter"
    /\ log' = Append(log, Entry("get_filtered_hosts_raises", <<>>))
    /\ Propagate("FilterError")

\* weighed_hosts = get_weighed_hosts(hosts, filter_properties)
GetWeighedHosts ==
    /\ pc = "weigh"
    /\ weighed_hosts' = WeighedHosts(hosts)
    /\ log' = Append(log, Entry("get_weighed_hosts", weighed_hosts'))
    /\ pc' = "pick"
    /\ UNCHANGED <<capacity, updated, request, group_hosts, num, hosts,
                   selected_hosts, notifications, dests, exc, history>>

GetWeighedHostsRaises ==
    /\ pc = "weigh"
    /\ log' = Append(log, Entry("get_weighed_hosts_raises", <<>>))
    /\ Propagate("WeigherError")

\* A faulty variant: random.choice draws from the whole weighed list.
Pick_FromWholeList ==
    /\ pc = "pick"
    /\ \E h \in Range(weighed_hosts) :
          /\ selected_hosts' = Append(selected_hosts, h)
          /\ log' = Append(log, Entry("choice", <<h>>))
    /\ pc' = "consume"
    /\ UNCHANGED <<capacity, updated, request, group_hosts, num, hosts,
                   weighed_hosts, notifications, dests, exc, history>>

\* The subset size is clamped, one of the best hosts is drawn and appended.
Pick ==
    /\ pc = "pick"
    /\ \E h \in ChoiceSet(scheduler_host_subset_size) :
          /\ selected_hosts' = Append(selected_hosts, h)
          /\ log' = Append(log, Entry("choice", <<h>>))
    /\ pc' = "consume"
    /\ UNCHANGED <<capacity, updated, request, group_hosts, num, hosts,
                   weighed_hosts, notifications, dests, exc, history>>

\* A faulty variant: the chosen host is not debited.
Consume_NoDebit ==
    /\ pc = "consume"
    /\ group_hosts' = IF group_updated = TRUE
                      THEN group_hosts \cup {chosen_host}
                      ELSE group_hosts
    /\ log' = Append(log, Entry("consume_from_request", <<chosen_host>>))
    /\ IF LoopContinues(num + 1)
       THEN num' = num + 1 /\ pc' = "filter"
       ELSE num' = num /\ pc' = "check"
    /\ UNCHANGED <<capacity, updated, request, hosts, weighed_hosts,
                   selected_hosts, notifications, dests, exc, history>>

\* A faulty variant: the debit goes to the best host of the round, whichever
\* host was picked.
Consume_DebitsBest ==
    /\ pc = "consume"
    /\ capacity' = Consumed(weighed_hosts[1])
    /\ group_hosts' = IF group_updated = TRUE
                      THEN group_hosts \cup {chosen_host}
                      ELSE group_hosts
    /\ log' = Append(log, Entry("consume_from_request", <<chosen_host>>))
    /\ IF LoopContinues(num + 1)
       THEN num' = num + 1 /\ pc' = "filter"
       ELSE num' = num /\ pc' = "check"
    /\ UNCHANGED <<updated, request, hosts, weighed_hosts, selected_hosts,
                   notifications, dests, exc, history>>

\* A faulty variant: the chosen host joins the group's hosts whatever the
\* group_updated flag says.
Consume_GroupAlways ==
    /\ pc = "consume"
    /\ capacity' = Consumed(chosen_host)
    /\ group_hosts' = group_hosts \cup {chosen_host}
    /\ log' = Append(log, Entry("consume_from_request", <<chosen_host>>))
    /\ IF LoopContinues(num + 1)
       THEN num' = num + 1 /\ pc' = "filter"
       ELSE num' = num /\ pc' = "check"
    /\ UNCHANGED <<updated, request, hosts, weighed_hosts, selected_hosts,
                   notifications, dests, exc, history>>

\* The chosen host is debited, the group's hosts are updated, the loop goes on.
Consume ==
    /\ pc = "consume"
    /\ capacity' = Consumed(chosen_host)
    /\ group_hosts' = IF group_updated = TRUE
                      THEN group_hosts \cup {chosen_host}
                      ELSE group_hosts
    /\ log' = Append(log, Entry("consume_from_request", <<chosen_host>>))
    /\ IF LoopContinues(num + 1)
       THEN num' = num + 1 /\ pc' = "filter"
       ELSE num' = num /\ pc' = "check"
    /\ UNCHANGED <<updated, request, hosts, weighed_hosts, selected_hosts,
                   notifications, dests, exc, history>>

\* A faulty variant: NoValidHost is raised with the markers left as they were.
RaiseNoValidHost_MarkersKept ==
    /\ pc = "check"
    /\ CouldNotFulfill
    /\ exc' = "NoValidHost"
    /\ pc' = "raised"
    /\ UNCHANGED <<capacity, updated, request, group_hosts, num, hosts,
                   weighed_hosts, selected_hosts, notifications, dests, log,
                   history>>

\* A faulty variant: the end event is sent on the failing path too.
RaiseNoValidHost_EndEvent ==
    /\ pc = "check"
    /\ CouldNotFulfill
    /\ updated' = [h \in Hosts |->
                     IF h \in Range(selected_hosts) THEN "None" ELSE updated[h]]
    /\ notifications' = Append(notifications, "scheduler.select_destinations.end")
    /\ exc' = "NoValidHost"
    /\ pc' = "raised"
    /\ UNCHANGED <<capacity, request, group_hosts, num, hosts, weighed_hosts,
                   selected_hosts, dests, log, history>>

\* A faulty variant: the markers of all the hosts are cleared, selected or not.
RaiseNoValidHost_AllMarkers ==
    /\ pc = "check"
    /\ CouldNotFulfill
    /\ updated' = [h \in Hosts |-> "None"]
    /\ exc' = "NoValidHost"
    /\ pc' = "raised"
    /\ UNCHANGED <<capacity, request, group_hosts, num, hosts, weighed_hosts,
                   selected_hosts, notifications, dests, log, history>>

\* Couldn't fulfill the request_spec: the markers are cleared, NoValidHost.
RaiseNoValidHost ==
    /\ pc = "check"
    /\ CouldNotFulfill
    /\ updated' = [h \in Hosts |->
                     IF h \in Range(selected_hosts) THEN "None" ELSE updated[h]]
    /\ exc' = "NoValidHost"
    /\ pc' = "raised"
    /\ UNCHANGED <<capacity, request, group_hosts, num, hosts, weighed_hosts,
                   selected_hosts, notifications, dests, log, history>>

\* Otherwise: the destinations are built, the end event is sent, they return.
ReturnDestinations ==
    /\ pc = "check"
    /\ ~CouldNotFulfill
    /\ dests' = Destinations(selected_hosts)
    /\ notifications' = Append(notifications, "scheduler.select_destinations.end")
    /\ log' = Append(log, Entry("notify_end", <<>>))
    /\ pc' = "returned"
    /\ UNCHANGED <<capacity, updated, request, group_hosts, num, hosts,
                   weighed_hosts, selected_hosts, exc, history>>

\* The caller repeats the request on the same scheduler object, against the
\* host set as it was: every call starts in select_destinations afresh.
NextCall ==
    /\ pc \in {"returned", "raised"}
    /\ call = 1
    /\ call' = 2
    /\ first_call' = [selected |-> selected_hosts, pc |-> pc, exc |-> exc]
    /\ capacity' = capacity0
    /\ updated' = [h \in Hosts |-> "t0"]
    /\ group_hosts' = {}
    /\ pc' = "start"
    /\ num' = 0
    /\ hosts' = <<>>
    /\ weighed_hosts' = <<>>
    /\ selected_hosts' = <<>>
    /\ notifications' = <<>>
    /\ dests' = <<>>
    /\ exc' = "none"
    /\ log' = <<>>
    /\ UNCHANGED <<request, other>>

Next ==
    \/ NotifyStart
    \/ GetAllHostStates
    \/ GetAllHostStatesRaises
    \/ GetFilteredHosts
    \/ GetFilteredHostsRaises
    \/ GetWeighedHosts
    \/ GetWeighedHostsRaises
    \/ Pick
    \/ Consume
    \/ RaiseNoValidHost
    \/ ReturnDestinations

Spec == Init /\ [][Next]_vars

\* Repeated calls whose collaborators all return.
NextRepeated ==
    \/ NotifyStart
    \/ GetAllHostStates
    \/ GetFilteredHosts
    \/ GetWeighedHosts
    \/ Pick
    \/ Consume
    \/ RaiseNoValidHost
    \/ ReturnDestinations
    \/ NextCall

\* The repeated requests are those of a scheduler that picks among the two
\* best hosts at most.
InitRepeated == Init /\ scheduler_host_subset_size <= 2

SpecRepeated == InitRepeated /\ [][NextRepeated]_vars

\* One call whose collaborators all return.
NextReturning ==
    \/ NotifyStart
    \/ GetAllHostStates
    \/ GetFilteredHosts
    \/ GetWeighedHosts
    \/ Pick
    \/ Consume
    \/ RaiseNoValidHost
    \/ ReturnDestinations

SpecReturning == Init /\ [][NextReturning]_vars

\* Two calls of select_destinations in flight on one scheduler object.  Both
\* get their HostStates from the one host manager, which keeps the objects it
\* hands out (lines 79-83: a HostState whose marker is cleared is refreshed
\* "in next schedule"), and _get_all_host_states passes them on uncopied.  The
\* running call gives way while it waits in the provider, the filter chain or
\* the weigher chain, or when it has ended; the other call then runs with its
\* own locals on the same HostStates.
Switch ==
    /\ other.pc \notin {"none", "returned", "raised"}
    /\ pc \in {"fetch", "filter", "weigh", "returned", "raised"}
    /\ other' = [id |-> 3 - other.id, pc |-> pc, num |-> num, hosts |-> hosts,
                 weighed_hosts |-> weighed_hosts,
                 selected_hosts |-> selected_hosts,
                 notifications |-> notifications, dests |-> dests,
                 exc |-> exc, log |-> log, group_hosts |-> group_hosts]
    /\ pc' = other.pc
    /\ num' = other.num
    /\ hosts' = other.hosts
    /\ weighed_hosts' = other.weighed_hosts
    /\ selected_hosts' = other.selected_hosts
    /\ notifications' = other.notifications
    /\ dests' = other.dests
    /\ exc' = other.exc
    /\ log' = other.log
    /\ group_hosts' = other.group_hosts
    /\ UNCHANGED <<capacity, updated, request, call, first_call>>

NextConcurrent ==
    \/ NotifyStart
    \/ GetAllHostStates
    \/ GetFilteredHosts
    \/ GetWeighedHosts
    \/ Pick
    \/ Consume
    \/ RaiseNoValidHost
    \/ ReturnDestinations
    \/ Switch

\* The two calls carry the same request: one or two instances outside any
\* group, for a scheduler that picks among the two best hosts at most.
InitConcurrent ==
    /\ capacity \in [Hosts -> 0..MaxCapacity]
    /\ capacity0 = capacity
    /\ updated = [h \in Hosts |-> "t0"]
    /\ num_instances \in 1..2
    /\ footprint \in Footprints
    /\ scheduler_host_subset_size \in {1, 2}
    /\ group_policy = "none"
    /\ group_updated = FALSE
    /\ group_hosts = {}
    /\ pc = "start"
    /\ num = 0
    /\ hosts = <<>>
    /\ weighed_hosts = <<>>
    /\ selected_hosts = <<>>
    /\ notifications = <<>>
    /\ dests = <<>>
    /\ exc = "none"
    /\ log = <<>>
    /\ call = 1
    /\ first_call = NoCall
    /\ other = Frame(2, "start")

SpecConcurrent == InitConcurrent /\ [][NextConcurrent]_vars

\* ------------------------------------------------------------ vocabulary
Terminal == pc \in {"returned", "raised"}

CollaboratorFailures == {"HostStateProviderError", "FilterError", "WeigherError"}

\* Positions of the log that hold a call of op.
Calls(op) == {i \in 1..Len(log) : log[i].op = op}

\* How often h was chosen in the rounds before round k: selected_hosts[j] is
\* the choice of round j - 1.
ChosenBefore(h, k) ==
    Cardinality({j \in 1..Len(selected_hosts) : j <= k /\ selected_hosts[j] = h})

DestinationHosts == {dests[i].host : i \in 1..Len(dests)}

\* ---------------------------------------------------------------- claims
\* C1: a call that does not fail inside a collaborator either returns exactly
\* num_instances destinations or raises NoValidHost and returns none; a list
\* shorter than num_instances is never returned.
AllOrNothing ==
    /\ Len(dests) \in {0, num_instances}
    /\ pc = "returned" => Len(dests) = num_instances /\ exc = "none"
    /\ pc = "raised" => dests = <<>>
    /\ (Terminal /\ exc \notin CollaboratorFailures) =>
          \/ pc = "returned" /\ Len(dests) = num_instances
          \/ pc = "raised" /\ exc = "NoValidHost" /\ dests = <<>>

\* C1 witness: some hosts were selected, fewer than asked for, none returned.
AllOrNothingWitness ==
    /\ pc = "raised"
    /\ exc = "NoValidHost"
    /\ selected_hosts # <<>>
    /\ Len(selected_hosts) < num_instances
    /\ dests = <<>>

\* C2: with a filter that admits only hosts with room for one more instance,
\* no host's remaining capacity is ever negative, and no host is selected more
\* often in one call than its initial capacity can hold.
NoOverAllocation ==
    \A h \in Hosts :
        /\ capacity[h] >= 0
        /\ Count(selected_hosts, h) * footprint <= capacity0[h]

\* C2 witness: a host was chosen twice and is now exactly full.
NoOverAllocationWitness ==
    \E h \in Hosts :
        /\ Count(selected_hosts, h) = 2
        /\ capacity0[h] = 2 * footprint
        /\ capacity[h] = 0
        /\ pc = "raised"

\* C3: whenever _schedule returned fewer than num_instances hosts, the call
\* fails with NoValidHost and every selected host's marker is None by then.
InsufficiencyInvalidation ==
    /\ (pc = "raised" /\ exc = "NoValidHost") =>
          /\ Len(selected_hosts) < num_instances
          /\ \A h \in Range(selected_hosts) : updated[h] = "None"
    /\ (Terminal /\ exc \notin CollaboratorFailures
          /\ Len(selected_hosts) < num_instances) =>
          pc = "raised" /\ exc = "NoValidHost"

\* C3 witness: 5 instances asked of 3 eligible hosts, 3 hosts selected, the
\* call failed and the three markers are cleared.
InsufficiencyInvalidationWitness ==
    /\ num_instances = 5
    /\ Cardinality({h \in Hosts : capacity0[h] >= footprint}) = 3
    /\ Len(selected_hosts) = 3
    /\ Cardinality(Range(selected_hosts)) = 3
    /\ pc = "raised"
    /\ exc = "NoValidHost"
    /\ \A h \in Range(selected_hosts) : updated[h] = "None"

\* K hosts at least are eligible and have room for the whole batch.
EnoughRoomyHosts ==
    Cardinality({h \in Hosts : capacity0[h] >= num_instances * footprint})
        >= num_instances

\* C4, as stated: with at least K eligible hosts that capacity does not limit,
\* a batch of K returns K distinct hosts.
ExactCountDistinct ==
    (pc = "returned" /\ EnoughRoomyHosts) =>
        Cardinality(DestinationHosts) = num_instances

\* C4, amended: with at least K eligible hosts that capacity does not limit,
\* a batch of K whose collaborators all return ends with exactly K
\* destinations; their hosts need not be distinct.
ExactCountEntries ==
    (Terminal /\ EnoughRoomyHosts /\ exc \notin CollaboratorFailures) =>
        /\ pc = "returned"
        /\ Len(dests) = num_instances
        /\ Len(selected_hosts) = num_instances
        /\ Cardinality(DestinationHosts) \in 1..num_instances

\* C4 witness: a batch of 2 or more returned with fewer hosts than instances.
ExactCountEntriesWitness ==
    /\ pc = "returned"
    /\ EnoughRoomyHosts
    /\ num_instances >= 2
    /\ Len(dests) = num_instances
    /\ Cardinality(DestinationHosts) < num_instances

\* C5: selected_hosts never holds more than num_instances hosts, it holds one
\* host per round that reached the pick, and a round whose filter result is
\* empty is the last thing _schedule does: no weigh, pick or consume follows.
BoundedSelection ==
    /\ Len(selected_hosts) <= num_instances
    /\ Len(selected_hosts) = Cardinality(Calls("choice"))
    /\ \A i \in Calls("choice") :
          /\ log[i].round < Len(selected_hosts)
          /\ log[i].hosts = <<selected_hosts[log[i].round + 1]>>
    /\ Cardinality(Calls("consume_from_request")) =
          Len(selected_hosts) - (IF pc = "consume" THEN 1 ELSE 0)
    /\ \A i \in Calls("get_filtered_hosts") :
          log[i].hosts = <<>> =>
              /\ i = Len(log)
              /\ pc \in {"check", "raised"}
              /\ Len(selected_hosts) = log[i].round
              /\ Len(selected_hosts) < num_instances

\* C5 witness: a round after the first found no host; _schedule has returned
\* what it had.
BoundedSelectionWitness ==
    /\ pc = "check"
    /\ log[Len(log)].op = "get_filtered_hosts"
    /\ log[Len(log)].hosts = <<>>
    /\ log[Len(log)].round >= 1
    /\ Len(selected_hosts) = log[Len(log)].round

Max(a, b) == IF a > b THEN a ELSE b

Min(a, b) == IF a < b THEN a ELSE b

\* clamp(x, lo, hi)
Clamp(x, lo, hi) == Max(lo, Min(x, hi))

\* The first k entries of this round's weighed list.
Top(k) == {weighed_hosts[i] : i \in 1..k}

\* C6: the chosen host is one of the first S entries of the weighed list,
\* S = clamp(scheduler_host_subset_size, 1, len(weighed)); a size below 1
\* gives the choices of size 1, a size above the length those of the length.
SubsetClamp ==
    LET n == Len(weighed_hosts)
        size == scheduler_host_subset_size
    IN /\ pc = "pick" =>
            /\ n >= 1
            /\ ChoiceSet(size) = Top(Clamp(size, 1, n))
            /\ size < 1 => ChoiceSet(size) = ChoiceSet(1)
            /\ size > n => ChoiceSet(size) = ChoiceSet(n)
       /\ pc = "consume" => chosen_host \in Top(Clamp(size, 1, n))

\* C6 witness: a negative size, two hosts or more weighed, the first chosen.
SubsetClampWitness ==
    /\ pc = "consume"
    /\ scheduler_host_subset_size < 0
    /\ Len(weighed_hosts) >= 2
    /\ chosen_host = weighed_hosts[1]

StartEvent == "scheduler.select_destinations.start"

EndEvent == "scheduler.select_destinations.end"

\* C7: the start event precedes the fetch of the host states and every round;
\* a successful call emits start then end, the end after all rounds and as the
\* last thing before the return; a call that fails with NoValidHost emits the
\* start event only.
LifecycleOrder ==
    /\ pc = "start" => notifications = <<>> /\ log = <<>>
    /\ pc # "start" =>
          /\ notifications[1] = StartEvent
          /\ log[1].op = "notify_start"
          /\ Calls("notify_start") = {1}
    /\ pc = "returned" =>
          /\ notifications = <<StartEvent, EndEvent>>
          /\ Calls("notify_end") = {Len(log)}
          /\ Cardinality(Calls("consume_from_request")) = num_instances
    /\ pc # "returned" =>
          /\ Calls("notify_end") = {}
          /\ Len(notifications) <= 1
    /\ (pc = "raised" /\ exc = "NoValidHost") => notifications = <<StartEvent>>

\* C7 witness: a call of two rounds or more has returned, with its two events.
LifecycleOrderWitness ==
    /\ pc = "returned"
    /\ num_instances >= 2
    /\ notifications = <<StartEvent, EndEvent>>
    /\ log[2].op = "get_all_host_states"

\* What is left of h's initial capacity after it was chosen c times.
Remaining(h, c) == capacity0[h] - footprint * c

\* C8: the capacity filter excludes a host from the first round that begins
\* with less than one footprint left on it, in every later round, and in no
\* round that begins with a footprint or more left.  Stated of the filter call
\* that has just returned, which every filter call of the log once was.
ConsumptionOrdering ==
    (log # <<>> /\ log[Len(log)].op = "get_filtered_hosts") =>
        LET k == log[Len(log)].round
            passed == Range(log[Len(log)].hosts)
        IN \A h \in Hosts :
              LET c == ChosenBefore(h, k)
              IN IF Remaining(h, c) < footprint
                 THEN h \notin passed
                 ELSE \/ h \in passed
                      \/ group_policy = "anti-affinity" /\ c > 0

\* C8 witness: a host with room for two instances passed the filters of
\* rounds 0 and 1, was chosen in both, and is excluded in round 2.
ConsumptionOrderingWitness ==
    \E h \in Hosts : \E i, j \in Calls("get_filtered_hosts") :
        /\ capacity0[h] >= 2 * footprint
        /\ capacity0[h] < 3 * footprint
        /\ group_policy = "none"
        /\ log[j].round = 1
        /\ h \in Range(log[j].hosts)
        /\ log[i].round = 2
        /\ ChosenBefore(h, 2) = 2
        /\ h \notin Range(log[i].hosts)

\* C9: with subset size 1, a repeated identical request against the unchanged
\* host set picks the host sequence of the first request, pick by pick, and
\* ends as the first did.
Determinism ==
    (call = 2 /\ scheduler_host_subset_size = 1) =>
        /\ Len(selected_hosts) <= Len(first_call.selected)
        /\ selected_hosts = SubSeq(first_call.selected, 1, Len(selected_hosts))
        /\ Terminal =>
              /\ selected_hosts = first_call.selected
              /\ pc = first_call.pc
              /\ exc = first_call.exc

\* C9 witness: the repeated request returned the same two different hosts.
DeterminismWitness ==
    /\ call = 2
    /\ scheduler_host_subset_size = 1
    /\ pc = "returned"
    /\ Cardinality(Range(selected_hosts)) >= 2
    /\ selected_hosts = first_call.selected

RaiseCalls ==
    {i \in 1..Len(log) :
        log[i].op \in {"get_all_host_states_raises",
                       "get_filtered_hosts_raises",
                       "get_weighed_hosts_raises"}}

FailureOf(op) ==
    CASE op = "get_all_host_states_raises" -> "HostStateProviderError"
      [] op = "get_filtered_hosts_raises" -> "FilterError"
      [] op = "get_weighed_hosts_raises" -> "WeigherError"

\* C10: a failure of the provider, the filter chain or the weigher chain is
\* the last thing the call does: select_destinations raises that failure, not
\* NoValidHost, returns no destinations, runs no further round and emits no
\* end event.
FailurePropagation ==
    /\ \A i \in RaiseCalls :
          /\ i = Len(log)
          /\ pc = "raised"
          /\ exc = FailureOf(log[i].op)
          /\ dests = <<>>
          /\ notifications = <<StartEvent>>
    /\ exc \in CollaboratorFailures => RaiseCalls # {}

\* C10 witness: the weigher chain failed in a round after the first.
FailurePropagationWitness ==
    /\ pc = "raised"
    /\ exc = "WeigherError"
    /\ log[Len(log)].op = "get_weighed_hosts_raises"
    /\ log[Len(log)].round >= 1
    /\ selected_hosts # <<>>

\* The host chosen in round k, as the log recorded it at the pick.
ChoiceOf(k) ==
    LET i == CHOOSE j \in Calls("choice") : log[j].round = k
    IN  log[i].hosts[1]

Debited(sel, p) == IF p = "consume" THEN SubSeq(sel, 1, Len(sel) - 1) ELSE sel

\* C12: when two calls of select_destinations are in flight on the same
\* scheduler object, no HostState is debited by both, and the capacities the
\* running call finds are those it would find running alone: the capacities
\* at the start less what the call itself has consumed.
CrossCallIsolation ==
    other.pc # "none" =>
        /\ Range(Debited(selected_hosts, pc))
              \cap Range(Debited(other.selected_hosts, other.pc)) = {}
        /\ \A h \in Hosts :
              capacity[h] =
                 capacity0[h]
                    - footprint * Count(Debited(selected_hosts, pc), h)

\* C13: the filter chain of round 0 is given the provider's list and the
\* filter chain of round k+1 is given what the filter chain of round k gave
\* back; what it gives back is a part of what it was given, so the filtered
\* list never grows, and a host chosen in a round passed the filters of that
\* round and of every round before it.
MonotonicNarrowing ==
    /\ \A i \in Calls("get_filtered_hosts") :
          LET given == log[i - 1]
          IN  /\ given.op = "get_filtered_hosts_input"
              /\ given.round = log[i].round
              /\ IF given.round = 0
                    THEN /\ log[i - 2].op = "get_all_host_states"
                         /\ given.hosts = log[i - 2].hosts
                    ELSE /\ log[i - 5].op = "get_filtered_hosts"
                         /\ log[i - 5].round = given.round - 1
                         /\ given.hosts = log[i - 5].hosts
              /\ Len(log[i].hosts) <= Len(given.hosts)
              /\ Range(log[i].hosts) \subseteq Range(given.hosts)
    /\ pc = "consume" =>
          \A i \in Calls("get_filtered_hosts") :
              chosen_host \in Range(log[i].hosts)

\* C13 witness: three rounds whose filtered lists had 3, 2 and 1 hosts; the
\* host that the second round filtered out was not chosen in the third.
MonotonicNarrowingWitness ==
    /\ pc = "returned"
    /\ Len(selected_hosts) = 3
    /\ Len(log) >= 14
    /\ log[4].op = "get_filtered_hosts" /\ Len(log[4].hosts) = 3
    /\ log[9].op = "get_filtered_hosts" /\ Len(log[9].hosts) = 2
    /\ log[14].op = "get_filtered_hosts" /\ Len(log[14].hosts) = 1
    /\ selected_hosts[3] \in Range(log[14].hosts)
    /\ selected_hosts[1] \notin Range(log[9].hosts)

\* C14: a round that picked a host goes on with exactly one call of
\* consume_from_request, on the host that the round picked and appended; that
\* step debits this host by one footprint and no other host, and no other
\* step of the call changes a capacity.  So no capacity ever increases.
OneConsumptionPerRound ==
    [][ /\ \A h \in Hosts : capacity'[h] <= capacity[h]
        /\ IF pc = "consume"
              THEN /\ log[Len(log)] = Entry("choice", <<chosen_host>>)
                   /\ log' = Append(log, Entry("consume_from_request",
                                               <<chosen_host>>))
                   /\ selected_hosts' = selected_hosts
                   /\ capacity'[chosen_host] =
                         capacity[chosen_host] - footprint
                   /\ \A h \in Hosts \ {chosen_host} :
                         capacity'[h] = capacity[h]
                   /\ pc' # "consume"
              ELSE /\ capacity' = capacity
                   /\ \A i \in (Len(log) + 1)..Len(log') :
                         log'[i].op # "consume_from_request"
      ]_vars

\* C14 witness: a round picked a host that was not the best of its weighed
\* list and has consumed from it; that host is one footprint down and all the
\* other hosts, the best included, are as they were.
OneConsumptionPerRoundWitness ==
    /\ log # <<>>
    /\ log[Len(log)].op = "consume_from_request"
    /\ log[Len(log)].hosts = <<chosen_host>>
    /\ chosen_host # weighed_hosts[1]
    /\ capacity[chosen_host] = capacity0[chosen_host] - footprint
    /\ \A h \in Hosts \ {chosen_host} : capacity[h] = capacity0[h]

\* C15: when the call fails with NoValidHost, every host keeps the debits of
\* the rounds that chose it (nothing is given back), the markers of the
\* selected hosts are None and the markers of all other hosts are as they
\* were; in every other state of the call, the successful return included, no
\* marker has changed.
RollbackIsMarkerOnly ==
    /\ \A h \in Hosts :
          capacity[h] =
             capacity0[h] - footprint * Count(Debited(selected_hosts, pc), h)
    /\ IF pc = "raised" /\ exc = "NoValidHost"
          THEN \A h \in Hosts :
                  updated[h] =
                     IF h \in Range(selected_hosts) THEN "None" ELSE "t0"
          ELSE \A h \in Hosts : updated[h] = "t0"

\* C15 witness: the call failed with NoValidHost after it had debited two
\* hosts; a third host, which had some room but never enough for an instance,
\* was not selected and keeps its capacity and its marker.
RollbackIsMarkerOnlyWitness ==
    /\ pc = "raised"
    /\ exc = "NoValidHost"
    /\ Cardinality(Range(selected_hosts)) = 2
    /\ \A h \in Range(selected_hosts) :
          capacity[h] < capacity0[h] /\ updated[h] = "None"
    /\ \E h \in Hosts \ Range(selected_hosts) :
          /\ capacity0[h] > 0
          /\ capacity[h] = capacity0[h]
          /\ updated[h] = "t0"

\* C16: with group_updated true, group_hosts holds the hosts of the rounds
\* that have consumed, and not yet the host that was picked and is still to be
\* consumed from; so the filter of a round sees the hosts chosen in the rounds
\* before it (the anti-affinity filter lets none of them through) and not the
\* host its own round is going to choose, which it let through.  With the flag
\* not true, group_hosts stays empty.
GroupVisibility ==
    /\ group_hosts =
          IF group_updated = TRUE
             THEN Range(Debited(selected_hosts, pc))
             ELSE {}
    /\ \A i \in Calls("get_filtered_hosts") :
          LET k == log[i].round
          IN  /\ group_policy = "anti-affinity" =>
                    Range(log[i].hosts) \cap Range(SubSeq(selected_hosts, 1, k))
                       = {}
              /\ Len(selected_hosts) > k =>
                    selected_hosts[k + 1] \in Range(log[i].hosts)

\* C16 witness: an anti-affinity request for two instances was served: the
\* host of the first round had room for both, passed the first filter, was
\* kept out by the second, and another host was chosen in the second round.
GroupVisibilityWitness ==
    /\ pc = "returned"
    /\ group_policy = "anti-affinity"
    /\ num_instances = 2
    /\ capacity0[selected_hosts[1]] >= 2 * footprint
    /\ selected_hosts[1] \in Range(log[4].hosts)
    /\ log[9].op = "get_filtered_hosts"
    /\ selected_hosts[1] \notin Range(log[9].hosts)
    /\ selected_hosts[2] # selected_hosts[1]
    /\ group_hosts = {selected_hosts[1], selected_hosts[2]}

Complete ==
    /\ pc = "returned"
    /\ exc = "none"
    /\ Len(dests) = num_instances

Insufficient ==
    /\ pc = "raised"
    /\ exc = "NoValidHost"
    /\ dests = <<>>
    /\ Len(selected_hosts) < num_instances
    /\ log[Len(log)] = Entry("get_filtered_hosts", <<>>)

\* C18: a call whose collaborators all return comes to an end: short of the
\* end a step can always be taken (the call of the weigher chain has no guard
\* but its position), every step adds an entry to the log or ends
\* the call, and the log holds five entries a round at most, besides the
\* two that precede the rounds and the end event.  The call starts at most num_instances rounds;
\* when it has ended it is Complete or it is Insufficient, never both and
\* never anything else; and nothing happens to a call that has ended.
Termination ==
    /\ [](\/ Terminal
          \/ pc = "weigh"
          \/ ENABLED (\/ NotifyStart
                      \/ GetAllHostStates
                      \/ GetFilteredHosts
                      \/ Pick
                      \/ Consume
                      \/ RaiseNoValidHost
                      \/ ReturnDestinations))
    /\ [][Len(log') > Len(log) \/ Terminal']_vars
    /\ [](Len(log) <= 3 + 5 * num_instances)
    /\ [](num < num_instances /\ Len(selected_hosts) <= num_instances)
    /\ [](Terminal => (Complete /\ ~Insufficient) \/ (Insufficient /\ ~Complete))
    /\ [][~Terminal]_vars

\* C18 witness: the call ran all the rounds it may run and ended in the last
\* of them, Insufficient, on an empty filtered list.
TerminationWitness ==
    /\ Insufficient
    /\ num_instances = MaxInstances
    /\ num = num_instances - 1
    /\ Len(selected_hosts) = num_instances - 1

\* C19: the host-state provider is asked once per call: its call is the
\* second entry of the log, right after the start event and before the first
\* filter call, and no later entry is a call of the provider.
SingleSnapshotFetch ==
    /\ \A i \in 1..Len(log) :
          (log[i].op \in {"get_all_host_states", "get_all_host_states_raises"})
             = (i = 2)
    /\ pc \notin {"start", "fetch"} => Len(log) >= 2

\* C19 witness: a call of three rounds or more has returned and its log holds
\* one call of the provider, ahead of the filter call of round 0.
SingleSnapshotFetchWitness ==
    /\ pc = "returned"
    /\ Len(selected_hosts) >= 3
    /\ Cardinality(Calls("get_all_host_states")) = 1
    /\ log[2].op = "get_all_host_states"
    /\ log[3] = [op |-> "get_filtered_hosts_input", round |-> 0,
                 hosts |-> log[2].hosts]
    /\ Cardinality(Calls("get_filtered_hosts")) >= 3

\* C20: when the filter chain or the weigher chain fails in a round k >= 1,
\* the hosts chosen in rounds 0..k-1 keep the debits of those rounds and no
\* marker is cleared: the markers are cleared on the NoValidHost path only.
FailureLeavesDebits ==
    (/\ pc = "raised"
     /\ exc \in {"FilterError", "WeigherError"}
     /\ log[Len(log)].round >= 1) =>
        /\ Len(selected_hosts) = log[Len(log)].round
        /\ \A h \in Hosts :
              /\ capacity[h] =
                    capacity0[h] - footprint * Count(selected_hosts, h)
              /\ updated[h] = "t0"

\* C20 witness: the filter chain failed in round 2; the two hosts chosen in
\* rounds 0 and 1 are debited and their markers are as they were.
FailureLeavesDebitsWitness ==
    /\ pc = "raised"
    /\ exc = "FilterError"
    /\ log[Len(log)] =
          [op |-> "get_filtered_hosts_raises", round |-> 2, hosts |-> <<>>]
    /\ Len(selected_hosts) = 2
    /\ selected_hosts[1] # selected_hosts[2]
    /\ \A h \in Range(selected_hosts) :
          capacity[h] = capacity0[h] - footprint /\ updated[h] = "t0"

====
